---- MODULE Spec2Model ----
(***************************************************************************)
(* The extraction coordination layer of src/src/persistence.rs: the        *)
(* Repository methods over the content, extraction_event, data_repository, *)
(* work, index and attributes_index tables, as a state machine over the    *)
(* committed rows of the store and the local state of the callers that are *)
(* part-way through an operation.                                          *)
(***************************************************************************)
EXTENDS Integers, Sequences, FiniteSets, TLC

VARIABLES
    content,            \* content table: id -> row
    extraction_events,  \* extraction_event table, in insertion order
    data_repository,    \* data_repository table: name -> row
    work,               \* work table: id -> row
    now,                \* SystemTime::now() in seconds
    txn,                \* the add_content transaction in flight, if any
    marks,              \* mark_content_as_processed calls issued, not yet executed
    alloc,              \* per allocation pass: what it read and has left to assign
    batch,              \* the events the draining consumer holds
    dropped,            \* the events the consumer held when it last crashed
    index,              \* index table: the rows, name unique
    attributes_index,   \* attributes_index table: the rows, id unique
    last                \* the last call that returned, and what it returned

vars == <<content, extraction_events, data_repository, work, now, txn, marks,
          alloc, batch, dropped, index, attributes_index, last>>

----------------------------------------------------------------------------
(* Bounds of the model *)

MaxEvents == 3
MaxTime == 1
MaxBatch == 2
MaxFilters == 2
MaxMarks == 2
MaxBindings == 2

----------------------------------------------------------------------------
(* Values *)

None == << >>
Some(v) == <<v>>

\* serde_json::Value, as far as the code looks at it: its type and its text
JsonString(s) == [t |-> "string", v |-> s]
JsonNumber(s) == [t |-> "number", v |-> s]

\* serde_json::Value::as_str
as_str(j) == IF j.t = "string" THEN Some(j.v) ELSE None

\* Postgres ->> : the field's value as text (a string without its quotes)
JsonText(j) == j.v

Repositories == {"r1", "r2"}
Texts == {"hello", "world"}
Fields == {"topic"}
MetadataValues == {JsonString("pipe"), JsonString("baz")}
FilterValues == {JsonString("pipe"), JsonString("baz"), JsonNumber("1")}
BindingNames == {"b1", "b2"}
Extractors == {"extractor1"}
Executors == {"w1", "w2"}
Allocators == {"p1", "p2"}

\* HashMap<String, serde_json::Value>
Metadatas == UNION {[D -> MetadataValues] : D \in SUBSET Fields}

EmptyMap == [k \in {} |-> k]

\* Sequences over S of length at most n
RECURSIVE SeqsUpTo(_, _)
SeqsUpTo(S, n) ==
    IF n = 0 THEN {<< >>}
    ELSE LET shorter == SeqsUpTo(S, n - 1)
         IN  shorter \cup {Append(s, x) : s \in {q \in shorter : Len(q) = n - 1}, x \in S}

Range(s) == {s[i] : i \in 1..Len(s)}

----------------------------------------------------------------------------
(* Content identity *)

\* DefaultHasher over (repository, text), taken as collision-free
ContentId(repository, text) == <<repository, text>>

FromTextHashingMetadata(repository, text, metadata) ==
    [id |-> <<repository, text, metadata>>,
     payload |-> text,
     payload_type |-> "embedded_storage",
     metadata |-> metadata]
from_text(repository, text, metadata) ==
    [id |-> ContentId(repository, text),
     payload |-> text,
     payload_type |-> "embedded_storage",
     metadata |-> metadata]

ContentIds == {ContentId(r, t) : r \in Repositories, t \in Texts}

\* ExtractorBindingsState::default()
ExtractorBindingsStateDefault == EmptyMap

\* the content::ActiveModel add_content builds from a payload
ContentModel(repository, p) ==
    [repository_id |-> repository,
     payload |-> p.payload,
     payload_type |-> p.payload_type,
     metadata |-> p.metadata,
     extractor_bindings_state |-> ExtractorBindingsStateDefault]

----------------------------------------------------------------------------
(* Extraction events *)

CreateContent(content_id) == [tag |-> "CreateContent", content_id |-> content_id]
ExtractorBindingAdded(repository, id) ==
    [tag |-> "ExtractorBindingAdded", repository |-> repository, id |-> id]

\* nanoid!(): an id no row of the table has
FreshEventId(events, k) == Len(events) + k

\* extraction_event::ActiveModel with processed_at NotSet
EventModel(id, repository, payload) ==
    [id |-> id,
     payload |-> [id |-> id, repository_id |-> repository, payload |-> payload],
     processed_at |-> None]

\* serde_json::from_value::<ExtractionEvent>(payload)
DecodeEvent(json) ==
    IF json.payload.tag \in {"CreateContent", "ExtractorBindingAdded"}
    THEN Some([id |-> json.id, repository_id |-> json.repository_id,
               payload |-> json.payload])
    ELSE None

EventIds == {extraction_events[i].id : i \in 1..Len(extraction_events)}
EventRow(id) == extraction_events[CHOOSE i \in 1..Len(extraction_events) :
                                      extraction_events[i].id = id]

AllRows == Range(extraction_events)

\* the rows the filter processed_at IS NULL keeps
UnprocessedRows ==
    {extraction_events[i] : i \in {j \in 1..Len(extraction_events) :
                                      extraction_events[j].processed_at = None}}

\* unprocessed_extraction_events: Ok(events), or Err when a payload does not decode
unprocessed_extraction_events ==
    IF \E r \in UnprocessedRows : DecodeEvent(r.payload) = None
    THEN [res |-> "Err", events |-> {}]
    ELSE [res |-> "Ok", events |-> {DecodeEvent(r.payload)[1] : r \in UnprocessedRows}]

----------------------------------------------------------------------------
(* Tables *)

\* `table` once `rows` are written to it
WithRows(table, rows) ==
    [k \in DOMAIN table \cup DOMAIN rows |->
        IF k \in DOMAIN rows THEN rows[k] ELSE table[k]]

\* the rows an insert_many(content_list) ON CONFLICT (id) DO UPDATE would write
InsertedContentOrUpdated(table, repository, content_list) ==
    [id \in {content_list[i].id : i \in 1..Len(content_list)} |->
        ContentModel(repository,
                     content_list[CHOOSE i \in 1..Len(content_list) :
                                      content_list[i].id = id])]

\* insert_many(content_list) ON CONFLICT (id) DO NOTHING: the rows it adds
InsertedContent(table, repository, content_list) ==
    LET first == {i \in 1..Len(content_list) :
                     /\ content_list[i].id \notin DOMAIN table
                     /\ \A j \in 1..(i - 1) : content_list[j].id # content_list[i].id}
    IN  [id \in {content_list[i].id : i \in first} |->
            ContentModel(repository,
                         content_list[CHOOSE i \in first : content_list[i].id = id])]

\* the extraction events add_content builds, one per payload of the call
ContentEvents(events, repository, content_list) ==
    [i \in 1..Len(content_list) |->
        EventModel(FreshEventId(events, i), repository,
                   CreateContent(content_list[i].id))]

\* events a transaction in flight will still append
Reserved == IF txn = None THEN 0 ELSE Len(txn[1].content_list)

Returned(op, res) == [op |-> op, res |-> res]

----------------------------------------------------------------------------
(* add_content: one transaction, statement by statement *)

\* what add_content returned, the ids it was called with and the ids whose rows
\* its transaction had inserted
AddContentReturned(res, t, staged) ==
    [op |-> "add_content", res |-> res, staged |-> staged,
     ids |-> {t.content_list[i].id : i \in 1..Len(t.content_list)}]

\* what the content table holds once the transaction is rolled back
ContentOnRollbackKept(t) == WithRows(content, t.rows)
ContentOnRollback(t) == content

\* the call builds its models and opens the transaction
AddContentBegin(repository, content_payloads) ==
    /\ txn = None
    /\ Len(extraction_events) + Len(content_payloads) <= MaxEvents
    /\ txn' = Some([repository |-> repository, content_list |-> content_payloads,
                    stage |-> "content", rows |-> EmptyMap])
    /\ UNCHANGED <<content, extraction_events, data_repository, work, now, marks,
                   alloc, batch, dropped, last, index, attributes_index>>

\* insert_many(content_list), inside the transaction
AddContentInsertContent(db_ok) ==
    /\ txn # None
    /\ txn[1].stage = "content"
    /\ LET t == txn[1]
           rows == InsertedContent(content, t.repository, t.content_list)
       IN  IF ~db_ok
           THEN /\ txn' = None
                /\ last' = AddContentReturned("Err", t, {})
           ELSE IF DOMAIN rows = {}
           THEN \* DbErr::RecordNotInserted: return Ok(()), nothing to commit
                /\ txn' = None
                /\ last' = AddContentReturned("Ok", t, {})
           ELSE /\ txn' = Some([t EXCEPT !.stage = "events", !.rows = rows])
                /\ UNCHANGED last
    /\ UNCHANGED <<content, extraction_events, data_repository, work, now, marks,
                   alloc, batch, dropped, index, attributes_index>>

\* insert_many(extraction_events), then commit; an error rolls back
AddContentInsertEvents(db_ok) ==
    /\ txn # None
    /\ txn[1].stage = "events"
    /\ LET t == txn[1]
       IN  IF db_ok
           THEN /\ content' = WithRows(content, t.rows)
                /\ extraction_events' = extraction_events \o
                       ContentEvents(extraction_events, t.repository, t.content_list)
                /\ last' = AddContentReturned("Ok", t, DOMAIN t.rows)
           ELSE /\ content' = ContentOnRollback(t)
                /\ UNCHANGED extraction_events
                /\ last' = AddContentReturned("Err", t, DOMAIN t.rows)
    /\ txn' = None
    /\ UNCHANGED <<data_repository, work, now, marks, alloc, batch, dropped, index,
                   attributes_index>>

----------------------------------------------------------------------------
(* Candidate selection and completion markers *)

\* cast(text as int), for the texts a marker can hold
CastInt(text) == IF text = "1" THEN 1 ELSE 0

\* COALESCE(cast(extractor_bindings_state->'state'->>name as int), 0)
Marker(row, name) ==
    IF name \in DOMAIN row.extractor_bindings_state
    THEN CastInt(JsonText(row.extractor_bindings_state[name]))
    ELSE 0

\* metadata->>field: NULL when the field is missing
MetadataText(row, field) ==
    IF field \in DOMAIN row.metadata THEN Some(JsonText(row.metadata[field])) ELSE None

\* a comparison of SQL texts: NULL when one side is NULL
SqlEq(a, b) == IF a = None \/ b = None THEN "null" ELSE IF a = b THEN "true" ELSE "false"
SqlNeq(a, b) == IF a = None \/ b = None THEN "null" ELSE IF a # b THEN "true" ELSE "false"

\* the condition a filter adds to the query, on one row
FilterCondition(row, filter) ==
    IF filter.op = "Eq"
    THEN SqlEq(MetadataText(row, filter.field), as_str(filter.value))
    ELSE SqlNeq(MetadataText(row, filter.field), as_str(filter.value))

\* content_with_unapplied_extractor: value.as_str().unwrap() panics while the
\* query is built; otherwise the rows for which every condition is true
content_with_unapplied_extractor(repo_id, extractor_binding, content_id) ==
    LET filters == extractor_binding.filters
    IN  IF \E i \in 1..Len(filters) : as_str(filters[i].value) = None
        THEN [res |-> "Panic", rows |-> {}]
        ELSE [res |-> "Ok",
              rows |-> {id \in DOMAIN content :
                          /\ content[id].repository_id = repo_id
                          /\ Marker(content[id], extractor_binding.name) < 1
                          /\ content_id # None => id = content_id[1]
                          /\ \A i \in 1..Len(filters) :
                                 FilterCondition(content[id], filters[i]) = "true"}]

\* a caller runs content_with_unapplied_extractor for a binding the repository
\* row holds
Select(repo_id, name, content_id) ==
    /\ repo_id \in DOMAIN data_repository
    /\ name \in DOMAIN data_repository[repo_id].extractor_bindings
    /\ LET extractor_binding == data_repository[repo_id].extractor_bindings[name]
           got == content_with_unapplied_extractor(repo_id, extractor_binding, content_id)
       IN  last' = [op |-> "content_with_unapplied_extractor", res |-> got.res,
                    rows |-> got.rows, binding |-> extractor_binding]
    /\ UNCHANGED <<content, extraction_events, data_repository, work, now, txn,
                   marks, alloc, batch, dropped, index, attributes_index>>

\* extractor_bindings_state['state'][$2] = '1', on the row's state `state`
MarkedStateOnly(state, binding_id) == [b \in {binding_id} |-> JsonNumber("1")]
MarkedState(state, binding_id) ==
    [b \in DOMAIN state \cup {binding_id} |->
        IF b = binding_id THEN JsonNumber("1") ELSE state[b]]

\* the state the UPDATE changes: the row's own, as it is when the statement runs
StateUpdatedSeen(m) == m.seen
StateUpdated(m) == content[m.content_id].extractor_bindings_state

\* the completion map of a row, for a caller that looks at it
StateOf(content_id) ==
    IF content_id \in DOMAIN content
    THEN content[content_id].extractor_bindings_state
    ELSE EmptyMap

\* a caller issues mark_content_as_processed(content_id, binding_id)
MarkInvoke(content_id, binding_id) ==
    /\ Cardinality(marks) < MaxMarks
    /\ \A m \in marks : m.content_id # content_id \/ m.binding_id # binding_id
    /\ marks' = marks \cup {[content_id |-> content_id, binding_id |-> binding_id,
                             seen |-> StateOf(content_id)]}
    /\ UNCHANGED <<content, extraction_events, data_repository, work, now, txn,
                   alloc, batch, dropped, last, index, attributes_index>>

\* the store executes its UPDATE ... WHERE id = $1; no row is no error
MarkExecute(m) ==
    /\ m \in marks
    /\ marks' = marks \ {m}
    /\ IF m.content_id \in DOMAIN content
       THEN content' = [content EXCEPT ![m.content_id].extractor_bindings_state =
                           MarkedState(StateUpdated(m), m.binding_id)]
       ELSE UNCHANGED content
    /\ last' = [op |-> "mark_content_as_processed", res |-> "Ok", call |-> m]
    /\ UNCHANGED <<extraction_events, data_repository, work, now, txn, alloc, batch,
                   dropped, index, attributes_index>>

----------------------------------------------------------------------------
(* upsert_repository *)

\* HashMap::insert of every binding under its name: a later one replaces an earlier
BindingsMap(extractor_bindings) ==
    [n \in {extractor_bindings[i].name : i \in 1..Len(extractor_bindings)} |->
        extractor_bindings[CHOOSE i \in 1..Len(extractor_bindings) :
            /\ extractor_bindings[i].name = n
            /\ \A j \in (i + 1)..Len(extractor_bindings) : extractor_bindings[j].name # n]]

BindingEvents(events, repository) ==
    [i \in 1..Len(repository.extractor_bindings) |->
        EventModel(FreshEventId(events, i), repository.name,
                   ExtractorBindingAdded(repository.name,
                                         repository.extractor_bindings[i].name))]

\* the data_repository table once the transaction has upserted the row
RepositoryStaged(repository) ==
    [n \in DOMAIN data_repository \cup {repository.name} |->
        IF n = repository.name
        THEN [extractor_bindings |-> BindingsMap(repository.extractor_bindings)]
        ELSE data_repository[n]]

\* what the data_repository table holds once the transaction is rolled back
RepositoryOnRollbackKept(staged) == staged
RepositoryOnRollback(staged) == data_repository

\* the statements of the transaction, in order: the event insert runs only when
\* there are events
UpsertStatements(repository) ==
    IF repository.extractor_bindings = << >>
    THEN {"data_repository"}
    ELSE {"data_repository", "extraction_event"}

\* the repository row is inserted or its bindings replaced, and the events are
\* appended, in one transaction; when a statement fails the transaction is rolled
\* back; the call returns Ok(()) whatever the transaction did
UpsertRepository(repository, db_ok) ==
    /\ Len(extraction_events) + Reserved + Len(repository.extractor_bindings) <= MaxEvents
    /\ IF db_ok
       THEN /\ data_repository' = RepositoryStaged(repository)
            /\ extraction_events' =
                  extraction_events \o BindingEvents(extraction_events, repository)
       ELSE /\ \E failed \in UpsertStatements(repository) :
                  data_repository' =
                      IF failed = "data_repository"
                      THEN data_repository
                      ELSE RepositoryOnRollback(RepositoryStaged(repository))
            /\ UNCHANGED extraction_events
    /\ last' = [op |-> "upsert_repository", res |-> "Ok", committed |-> db_ok]
    /\ UNCHANGED <<content, work, now, txn, marks, alloc, batch, dropped, index,
                   attributes_index>>

\* the rows of binding_by_id's query: data_repository joined with the entries of
\* its extractor_bindings, where the entry's key is the id
binding_by_id(id) ==
    {n \in DOMAIN data_repository : id \in DOMAIN data_repository[n].extractor_bindings}

\* binding_by_id: the binding under the id in one of the rows, whichever the store
\* returns first, or RepositoryError::RepositoryNotFound(repository)
BindingById(repository, id) ==
    /\ IF binding_by_id(id) # {}
       THEN \E n \in binding_by_id(id) :
                last' = [op |-> "binding_by_id", res |-> "Ok",
                         repository |-> repository, id |-> id,
                         binding |-> data_repository[n].extractor_bindings[id]]
       ELSE last' = [op |-> "binding_by_id", res |-> "Err",
                     repository |-> repository, id |-> id,
                     error |-> "RepositoryNotFound"]
    /\ UNCHANGED <<content, extraction_events, data_repository, work, now, txn,
                   marks, alloc, batch, dropped, index, attributes_index>>

----------------------------------------------------------------------------
(* The event log's consumer *)

\* the consumer calls unprocessed_extraction_events and keeps what it returns
Drain ==
    /\ batch' = unprocessed_extraction_events.events
    /\ last' = Returned("unprocessed_extraction_events", unprocessed_extraction_events.res)
    /\ UNCHANGED <<content, extraction_events, data_repository, work, now, txn,
                   marks, alloc, dropped, index, attributes_index>>

\* the processed_at the update writes
ProcessedAtToggled(row) == IF row.processed_at = None THEN Some(now) ELSE None
ProcessedAt(row) == Some(now)

\* mark_extraction_event_as_processed: find the row (unwrap), set processed_at
MarkExtractionEventAsProcessed(extraction_id) ==
    /\ IF extraction_id \in EventIds
       THEN /\ extraction_events' =
                  [i \in 1..Len(extraction_events) |->
                      IF extraction_events[i].id = extraction_id
                      THEN [extraction_events[i] EXCEPT
                                !.processed_at = ProcessedAt(extraction_events[i])]
                      ELSE extraction_events[i]]
            /\ last' = [op |-> "mark_extraction_event_as_processed", res |-> "Ok",
                        id |-> extraction_id]
       ELSE /\ UNCHANGED extraction_events
            /\ last' = [op |-> "mark_extraction_event_as_processed", res |-> "Panic",
                        id |-> extraction_id]
    /\ batch' = {e \in batch : e.id # extraction_id}
    /\ UNCHANGED <<content, data_repository, work, now, txn, marks, alloc, dropped,
                   index, attributes_index>>

\* the consumer stops with events read and not acknowledged
Crash ==
    /\ batch # {}
    /\ dropped' = {e.id : e \in batch}
    /\ batch' = {}
    /\ UNCHANGED <<content, extraction_events, data_repository, work, now, txn,
                   marks, alloc, last, index, attributes_index>>

Tick ==
    /\ now < MaxTime
    /\ now' = now + 1
    /\ UNCHANGED <<content, extraction_events, data_repository, work, txn, marks,
                   alloc, batch, dropped, last, index, attributes_index>>

----------------------------------------------------------------------------
(* Work *)

WorkStates == {"Unknown", "Pending", "InProgress", "Completed", "Failed"}

\* WorkState::to_string and WorkState::from_str (strum Display / EnumString)
WorkStateToString(state) == state
WorkStateFromStr(s) == IF s \in WorkStates THEN Some(s) ELSE None

\* DefaultHasher over (content_id, repository, extractor, extractor_binding),
\* taken as collision-free
WorkIdWithWorker(content_id, repository, extractor, extractor_binding, worker_id) ==
    <<content_id, repository, extractor, extractor_binding, worker_id>>
WorkId(content_id, repository, extractor, extractor_binding, worker_id) ==
    <<content_id, repository, extractor, extractor_binding>>

\* Work::new
WorkNew(content_id, repository, extractor, extractor_binding, worker_id) ==
    [id |-> WorkId(content_id, repository, extractor, extractor_binding, worker_id),
     content_id |-> content_id,
     repository_id |-> repository,
     extractor |-> extractor,
     extractor_binding |-> extractor_binding,
     work_state |-> "Pending",
     executor_id |-> worker_id]

\* the work::ActiveModel insert_work builds
WorkModel(w) ==
    [id |-> w.id,
     state |-> WorkStateToString(w.work_state),
     worker_id |-> w.executor_id,
     content_id |-> w.content_id,
     extractor |-> w.extractor,
     extractor_binding |-> w.extractor_binding,
     repository_id |-> w.repository_id]

\* the work table's primary key is its id column: an INSERT of a taken id fails
WorkKeyTaken(id) == id \in DOMAIN work

\* insert_work: a plain INSERT
InsertWork(w) ==
    /\ IF WorkKeyTaken(w.id)
       THEN /\ UNCHANGED work
            /\ last' = Returned("insert_work", "Err")
       ELSE /\ work' = WithRows(work, [id \in {w.id} |-> WorkModel(w)])
            /\ last' = Returned("insert_work", "Ok")
    /\ UNCHANGED <<content, extraction_events, data_repository, now, txn, marks,
                   alloc, batch, dropped, index, attributes_index>>

\* TryFrom<work::Model> for Work
TryFromWorkPending(model) ==
    [id |-> model.id,
     content_id |-> model.content_id,
     repository_id |-> model.repository_id,
     extractor |-> model.extractor,
     extractor_binding |-> model.extractor_binding,
     work_state |-> "Pending",
     executor_id |-> model.worker_id]
TryFromWork(model) ==
    [id |-> model.id,
     content_id |-> model.content_id,
     repository_id |-> model.repository_id,
     extractor |-> model.extractor,
     extractor_binding |-> model.extractor_binding,
     work_state |-> WorkStateFromStr(model.state)[1],
     executor_id |-> model.worker_id]

\* WorkState::from_str(&model.state) is Ok: the unwrap() of TryFrom does not panic
CanDecode(model) == WorkStateFromStr(model.state) # None

\* work_by_id: the row's Work, or RepositoryError::RepositoryNotFound(id); the
\* conversion of a row whose state no WorkState is named after panics
WorkById(id) ==
    /\ IF id \in DOMAIN work
       THEN IF CanDecode(work[id])
            THEN last' = [op |-> "work_by_id", res |-> "Ok", id |-> id,
                          work |-> TryFromWork(work[id])]
            ELSE last' = [op |-> "work_by_id", res |-> "Panic", id |-> id]
       ELSE last' = [op |-> "work_by_id", res |-> "Err", id |-> id,
                     error |-> "RepositoryNotFound"]
    /\ UNCHANGED <<content, extraction_events, data_repository, work, now, txn,
                   marks, alloc, batch, dropped, index, attributes_index>>

\* unallocated_work: worker_id IS NULL and state = 'Pending'
UnallocatedAnyState == {id \in DOMAIN work : work[id].worker_id = None}
UnallocatedIgnoringExecutor == {id \in DOMAIN work : work[id].state = "Pending"}
unallocated_work ==
    {id \in DOMAIN work :
        work[id].worker_id = None /\ work[id].state = WorkStateToString("Pending")}

\* work_for_worker: worker_id = $1 and state = 'Pending'
WorkForWorkerAnyState(worker_id) ==
    {id \in DOMAIN work : work[id].worker_id = Some(worker_id)}
work_for_worker(worker_id) ==
    {id \in DOMAIN work :
        /\ work[id].worker_id = Some(worker_id)
        /\ work[id].state = WorkStateToString("Pending")}

\* a worker calls work_for_worker and gets the Work of every row it selects
WorkForWorker(worker_id) ==
    /\ last' = [op |-> "work_for_worker", res |-> "Ok", worker_id |-> worker_id,
                works |-> {TryFromWork(work[id]) : id \in work_for_worker(worker_id)}]
    /\ UNCHANGED <<content, extraction_events, data_repository, work, now, txn,
                   marks, alloc, batch, dropped, index, attributes_index>>

\* the UPDATE of assign_work for one entry of the allocation
AssignedRowIfUnassigned(row, executor_id) ==
    IF row.worker_id = None THEN [row EXCEPT !.worker_id = Some(executor_id)] ELSE row
AssignedRowPending(row, executor_id) ==
    [row EXCEPT !.worker_id = Some(executor_id), !.state = "Pending"]
AssignedRow(row, executor_id) == [row EXCEPT !.worker_id = Some(executor_id)]

\* an allocation pass reads unallocated_work, decides who gets what of it, and
\* calls assign_work with that allocation
AllocRead(p, allocation) ==
    /\ alloc[p].pc = "idle"
    /\ DOMAIN allocation # {}
    /\ DOMAIN allocation \subseteq unallocated_work
    /\ alloc' = [alloc EXCEPT ![p] = [pc |-> "assign", todo |-> allocation]]
    /\ UNCHANGED <<content, extraction_events, data_repository, work, now, txn,
                   marks, batch, dropped, last, index, attributes_index>>

\* assign_work: one UPDATE per entry, in the HashMap's order; Ok(()) after the last
AssignWorkStep(p) ==
    /\ alloc[p].pc = "assign"
    /\ \E work_id \in DOMAIN alloc[p].todo :
          LET rest == [k \in DOMAIN alloc[p].todo \ {work_id} |-> alloc[p].todo[k]]
          IN  /\ work' = [id \in DOMAIN work |->
                            IF id = work_id
                            THEN AssignedRow(work[id], alloc[p].todo[work_id])
                            ELSE work[id]]
              /\ IF DOMAIN rest = {}
                 THEN /\ alloc' = [alloc EXCEPT ![p] = [pc |-> "idle", todo |-> EmptyMap]]
                      /\ last' = Returned("assign_work", "Ok")
                 ELSE /\ alloc' = [alloc EXCEPT ![p] = [pc |-> "assign", todo |-> rest]]
                      /\ UNCHANGED last
    /\ UNCHANGED <<content, extraction_events, data_repository, now, txn, marks,
                   batch, dropped, index, attributes_index>>

\* update_work_state: UPDATE ... RETURNING; the first row returned, as a Work, or
\* anyhow!("unable to find work {}") when no row was updated
UpdateWorkState(work_id, state) ==
    /\ IF work_id \in DOMAIN work
       THEN /\ work' = [work EXCEPT ![work_id].state = WorkStateToString(state)]
            /\ last' = [op |-> "update_work_state", res |-> "Ok", id |-> work_id,
                        work |-> TryFromWork(work'[work_id])]
       ELSE /\ UNCHANGED work
            /\ last' = [op |-> "update_work_state", res |-> "Err", id |-> work_id,
                        error |-> "unable to find work"]
    /\ UNCHANGED <<content, extraction_events, data_repository, now, txn, marks,
                   alloc, batch, dropped, index, attributes_index>>

----------------------------------------------------------------------------
(* Index metadata and extracted attributes *)

\* the index::ActiveModel create_index_metadata builds
IndexModel(repository, extractor_name, index_name, storage_index_name, index_schema, index_type) ==
    [name |-> index_name,
     vector_index_name |-> Some(storage_index_name),
     extractor_name |-> extractor_name,
     index_type |-> index_type,
     index_schema |-> index_schema,
     repository_id |-> repository]

\* ON CONFLICT (name): the row to insert conflicts with a row of the same name
IndexConflictOnNameAndRepository(row) ==
    \E r \in index : r.name = row.name /\ r.repository_id = row.repository_id
IndexConflict(row) == \E r \in index : r.name = row.name

\* create_index_metadata: INSERT ... ON CONFLICT (name) DO NOTHING; a conflict is
\* DbErr::RecordNotInserted, which is not an error of the call
CreateIndexMetadata(repository, extractor_name, index_name, storage_index_name, index_schema, index_type, db_ok) ==
    /\ LET row == IndexModel(repository, extractor_name, index_name,
                             storage_index_name, index_schema, index_type)
       IN  IF ~db_ok
           THEN /\ UNCHANGED index
                /\ last' = [op |-> "create_index_metadata", res |-> "Err",
                            error |-> "DatabaseError"]
           ELSE /\ index' = IF IndexConflict(row) THEN index ELSE index \cup {row}
                /\ last' = Returned("create_index_metadata", "Ok")
    /\ UNCHANGED <<content, extraction_events, data_repository, work, now, txn,
                   marks, alloc, batch, dropped, attributes_index>>

\* the rows get_index filters: Name = index and RepositoryId = repository
get_index(index_name, repository) ==
    {row \in index : row.name = index_name /\ row.repository_id = repository}

\* get_index: one of the rows, or anyhow!("index: {} not found")
GetIndex(index_name, repository) ==
    /\ IF get_index(index_name, repository) # {}
       THEN \E row \in get_index(index_name, repository) :
                last' = [op |-> "get_index", res |-> "Ok", index |-> index_name,
                         repository |-> repository, model |-> row]
       ELSE last' = [op |-> "get_index", res |-> "Err", index |-> index_name,
                     repository |-> repository, error |-> "index not found"]
    /\ UNCHANGED <<content, extraction_events, data_repository, work, now, txn,
                   marks, alloc, batch, dropped, index, attributes_index>>

\* DefaultHasher over (content_id, extractor_name), taken as collision-free
ExtractedAttributesId(content_id, extractor_name) == <<content_id, extractor_name>>

\* ExtractedAttributes::new
ExtractedAttributesNew(content_id, attributes, extractor_name) ==
    [id |-> ExtractedAttributesId(content_id, extractor_name),
     content_id |-> content_id,
     attributes |-> attributes,
     extractor_name |-> extractor_name]

\* the attributes_index::ActiveModel add_attributes builds
AttributesIndexModel(repository, index_name, extracted_attributes) ==
    [id |-> extracted_attributes.id,
     repository_id |-> repository,
     index_name |-> index_name,
     extractor_id |-> extracted_attributes.extractor_name,
     data |-> extracted_attributes.attributes,
     content_id |-> extracted_attributes.content_id,
     created_at |-> 0]

\* ON CONFLICT (id) DO UPDATE of the columns data and created_at
AttributesUpdated(row, model) ==
    [row EXCEPT !.data = model.data, !.created_at = model.created_at]

\* add_attributes: INSERT ... ON CONFLICT (id) DO UPDATE
AddAttributes(repository, index_name, extracted_attributes, db_ok) ==
    /\ LET model == AttributesIndexModel(repository, index_name, extracted_attributes)
       IN  IF ~db_ok
           THEN /\ UNCHANGED attributes_index
                /\ last' = [op |-> "add_attributes", res |-> "Err",
                            error |-> "DatabaseError"]
           ELSE /\ attributes_index' =
                      IF \E row \in attributes_index : row.id = model.id
                      THEN {IF row.id = model.id THEN AttributesUpdated(row, model)
                                                 ELSE row : row \in attributes_index}
                      ELSE attributes_index \cup {model}
                /\ last' = Returned("add_attributes", "Ok")
    /\ UNCHANGED <<content, extraction_events, data_repository, work, now, txn,
                   marks, alloc, batch, dropped, index>>

\* From<attributes_index::Model> for ExtractedAttributes
ExtractedAttributesFrom(model) ==
    [id |-> model.id,
     content_id |-> model.content_id,
     attributes |-> model.data,
     extractor_name |-> model.extractor_id]

\* get_extracted_attributes: RepositoryId = repository, IndexName = index and,
\* when a content id is given, ContentId = it
get_extracted_attributes(repository, index_name, content_id) ==
    {ExtractedAttributesFrom(row) :
        row \in {r \in attributes_index :
                    /\ r.repository_id = repository
                    /\ r.index_name = index_name
                    /\ content_id # None => r.content_id = content_id[1]}}

GetExtractedAttributes(repository, index_name, content_id) ==
    /\ last' = [op |-> "get_extracted_attributes", res |-> "Ok",
                repository |-> repository, index |-> index_name,
                content_id |-> content_id,
                attributes |-> get_extracted_attributes(repository, index_name,
                                                        content_id)]
    /\ UNCHANGED <<content, extraction_events, data_repository, work, now, txn,
                   marks, alloc, batch, dropped, index, attributes_index>>

----------------------------------------------------------------------------
(* Initial state: empty tables, nobody part-way through anything *)

Init ==
    /\ content = EmptyMap
    /\ extraction_events = << >>
    /\ data_repository = EmptyMap
    /\ work = EmptyMap
    /\ now = 0
    /\ txn = None
    /\ marks = {}
    /\ alloc = [p \in Allocators |-> [pc |-> "idle", todo |-> EmptyMap]]
    /\ batch = {}
    /\ dropped = {}
    /\ index = {}
    /\ attributes_index = {}
    /\ last = Returned("new", "Ok")

----------------------------------------------------------------------------------------------------------------------------------------
(* Ingestion: add_content transactions next to registrations and acknowledgments *)

IngestRepository == "r1"
IngestPayloads == {from_text(IngestRepository, t, EmptyMap) : t \in Texts}
IngestBindings ==
    {[name |-> "b1", repository |-> IngestRepository, extractor |-> "extractor1",
      filters |-> << >>]}
IngestRegistrations ==
    {[name |-> IngestRepository, extractor_bindings |-> bs] :
        bs \in SeqsUpTo(IngestBindings, 1)}

NextIngest ==
    \/ \E cl \in SeqsUpTo(IngestPayloads, MaxBatch) \ {<< >>} :
           AddContentBegin(IngestRepository, cl)
    \/ \E ok \in BOOLEAN : AddContentInsertContent(ok)
    \/ \E ok \in BOOLEAN : AddContentInsertEvents(ok)
    \/ \E r \in IngestRegistrations, ok \in BOOLEAN : UpsertRepository(r, ok)
    \/ \E id \in 1..MaxEvents : MarkExtractionEventAsProcessed(id)

SpecIngest == Init /\ [][NextIngest]_vars

----------------------------------------------------------------------------
(* The event log: events appended by ingestion and registration, one consumer *)

LogPayloads == {from_text(IngestRepository, "hello", EmptyMap)}

NextLog ==
    \/ \E cl \in SeqsUpTo(LogPayloads, 1) \ {<< >>} :
           AddContentBegin(IngestRepository, cl)
    \/ \E ok \in BOOLEAN : AddContentInsertContent(ok)
    \/ \E ok \in BOOLEAN : AddContentInsertEvents(ok)
    \/ \E r \in IngestRegistrations, ok \in BOOLEAN : UpsertRepository(r, ok)
    \/ Drain
    \/ \E id \in 1..MaxEvents : MarkExtractionEventAsProcessed(id)
    \/ Crash
    \/ Tick

SpecLog == Init /\ [][NextLog]_vars

----------------------------------------------------------------------------
(* Claims about the event log *)

CreateContentEvents(id) ==
    {i \in 1..Len(extraction_events) :
        /\ extraction_events[i].payload.payload.tag = "CreateContent"
        /\ extraction_events[i].payload.payload.content_id = id}

\* C2: in every state, also after an add_content that failed part-way, a Content
\* row exists if and only if a CreateContent event naming its id exists.
C2_ContentIffEvent ==
    \A id \in ContentIds : (id \in DOMAIN content) <=> (CreateContentEvents(id) # {})

\* an add_content failed after it had inserted content rows, next to committed content
C2_Witness ==
    /\ last.op = "add_content"
    /\ last.res = "Err"
    /\ last.staged # {}
    /\ content # EmptyMap

\* C29: every event an add_content appends names a content id that had no row
\* before the call committed, and in every state at most one CreateContent event
\* names a given content id.
C29_OneEventPerContent ==
    /\ [][\A i \in (Len(extraction_events) + 1)..Len(extraction_events') :
             extraction_events'[i].payload.payload.tag = "CreateContent" =>
                 extraction_events'[i].payload.payload.content_id \notin DOMAIN content]_vars
    /\ [](\A id \in ContentIds : Cardinality(CreateContentEvents(id)) <= 1)

\* C3: an event whose processed_at is set keeps its row with processed_at set
\* through every step, and unprocessed_extraction_events does not return it.
C3_ProcessedIsTerminal ==
    [][\A id \in EventIds :
          EventRow(id).processed_at # None =>
              /\ id \in EventIds'
              /\ EventRow(id)'.processed_at # None
              /\ \A e \in unprocessed_extraction_events'.events : e.id # id]_vars

\* an event acknowledged earlier, and a drain that has returned other events
C3_Witness ==
    /\ \E id \in EventIds :
           /\ EventRow(id).processed_at = Some(0)
           /\ \A e \in batch : e.id # id
    /\ now > 0
    /\ last.op = "unprocessed_extraction_events"
    /\ batch # {}

UnprocessedIds ==
    {id \in EventIds : EventRow(id).processed_at = None}

\* C4: unprocessed_extraction_events returns exactly the events whose processed_at
\* is null; an unprocessed event leaves that set only by a step that acknowledges
\* it; and a drain after a crash returns again every event the crashed consumer
\* held that is still unprocessed.
C4_DrainReturnsUnprocessed ==
    /\ [](/\ unprocessed_extraction_events.res = "Ok"
          /\ {e.id : e \in unprocessed_extraction_events.events} = UnprocessedIds
          /\ \A e \in unprocessed_extraction_events.events :
                 e.payload = EventRow(e.id).payload.payload)
    /\ [][\A id \in UnprocessedIds :
             /\ id \in EventIds'
             /\ \/ id \in UnprocessedIds'
                \/ /\ MarkExtractionEventAsProcessed(id)
                   /\ last'.res = "Ok"]_vars
    /\ [][Drain =>
             \A id \in dropped :
                 id \in UnprocessedIds => id \in {e.id : e \in batch'}]_vars

\* the consumer holds again an event it had read before it crashed
C4_Witness ==
    \E id \in dropped : id \in {e.id : e \in batch}

\* C5: a second acknowledge of an acknowledged event returns Ok and leaves
\* processed_at at the value the first call set.
C5_AcknowledgeIdempotent ==
    [][\A id \in EventIds :
          (EventRow(id).processed_at # None /\ MarkExtractionEventAsProcessed(id)) =>
              /\ last'.res = "Ok"
              /\ EventRow(id)'.processed_at = EventRow(id).processed_at]_vars

----------------------------------------------------------------------------
(* The work queue: creation, two allocation passes, state reports *)

QueueContents == {ContentId("r1", t) : t \in Texts}
QueueWorks ==
    {WorkNew(c, "r1", "extractor1", "b1", e) :
        c \in QueueContents, e \in {None} \cup {Some(x) : x \in Executors}}
QueueWorkIds == {w.id : w \in QueueWorks}
Allocations == UNION {[D -> Executors] : D \in SUBSET QueueWorkIds}

NextQueue ==
    \/ \E w \in QueueWorks : InsertWork(w)
    \/ \E p \in Allocators, a \in Allocations : AllocRead(p, a)
    \/ \E p \in Allocators : AssignWorkStep(p)
    \/ \E id \in QueueWorkIds, state \in WorkStates : UpdateWorkState(id, state)

SpecQueue == Init /\ [][NextQueue]_vars

----------------------------------------------------------------------------
(* Claims about the work queue *)

\* C1: under any interleaving of allocation passes and workers, a Work's
\* executor_id is written only while it is null, so a Work that has an executor
\* never gets a different one.
C1_AssignIsConditional ==
    [][\A id \in DOMAIN work :
          /\ work[id].worker_id # None => work'[id].worker_id = work[id].worker_id
          /\ work'[id].worker_id # work[id].worker_id => work[id].worker_id = None]_vars

\* the triple a Work row is for
Triple(row) == <<row.content_id, row.repository_id, row.extractor, row.extractor_binding>>

\* C10: in every state there is at most one Work row per (content, repository,
\* extractor, binding), whatever create calls were made.
C10_OneWorkPerTriple ==
    \A a, b \in DOMAIN work : Triple(work[a]) = Triple(work[b]) => a = b

\* a create for a triple that has a row was refused, a row for another triple is there
C10_Witness ==
    /\ last = Returned("insert_work", "Err")
    /\ Cardinality(DOMAIN work) = 2

----------------------------------------------------------------------------
(* The work table's operations: the queue's, and the reads of workers and callers *)

NextWork ==
    \/ NextQueue
    \/ \E id \in QueueWorkIds : WorkById(id)
    \/ \E e \in Executors : WorkForWorker(e)

SpecWork == Init /\ [][NextWork]_vars

\* C11: insert_work for a triple that has a row returns success and leaves the
\* table, the row's state and executor included, as it was.
C11_CreateExistingIsNoOp ==
    [][\A w \in QueueWorks :
          (InsertWork(w) /\ w.id \in DOMAIN work) =>
              /\ last'.res = "Ok"
              /\ work' = work]_vars

\* C12: the row insert_work stores for a Work made by Work::new has state Pending
\* and no executor, whatever executor Work::new was given.
C12_CreatedPendingUnassigned ==
    [][\A w \in QueueWorks :
          (InsertWork(w) /\ w.id \notin DOMAIN work) =>
              /\ work'[w.id].state = "Pending"
              /\ work'[w.id].worker_id = None]_vars

\* C13: update_work_state on a Work in Completed or Failed is rejected and leaves
\* the state as it was; Pending -> InProgress and InProgress -> Completed are
\* accepted.
C13_StateMachineEnforced ==
    [][\A id \in DOMAIN work, s \in WorkStates :
          UpdateWorkState(id, s) =>
              /\ work[id].state \in {"Completed", "Failed"} =>
                     last'.res = "Err" /\ work' = work
              /\ <<work[id].state, s>> \in {<<"Pending", "InProgress">>,
                                            <<"InProgress", "Completed">>} =>
                     last'.res = "Ok" /\ work'[id].state = s]_vars

\* C14: in every state unallocated_work returns exactly the rows with no executor
\* and state Pending.
C14_ListUnallocatedIsExact ==
    \A id \in DOMAIN work :
        id \in unallocated_work <=>
            (work[id].worker_id = None /\ work[id].state = "Pending")

\* an allocation pass has read the list, which leaves out an unassigned row that
\* is not Pending and still holds a row
C14_Witness ==
    /\ \E p \in Allocators : alloc[p].pc = "assign"
    /\ unallocated_work # {}
    /\ \E id \in DOMAIN work : work[id].worker_id = None /\ work[id].state = "InProgress"

\* C15: in every state work_for_worker(e) selects exactly the rows whose executor
\* is e and whose state is Pending, a call returns the Work of exactly these rows,
\* and a row whose state was set to anything but Pending is selected for nobody.
C15_ListForExecutorIsExact ==
    /\ [](\A e \in Executors : \A id \in DOMAIN work :
             id \in work_for_worker(e) <=>
                 (work[id].worker_id = Some(e) /\ work[id].state = "Pending"))
    /\ [][\A e \in Executors :
             WorkForWorker(e) =>
                 \A id \in DOMAIN work :
                     (\E w \in last'.works : w.id = id) <=>
                         (work[id].worker_id = Some(e) /\ work[id].state = "Pending")]_vars
    /\ [][\A id \in DOMAIN work, s \in WorkStates \ {"Pending"} :
             UpdateWorkState(id, s) =>
                 \A e \in Executors : id \notin work_for_worker(e)']_vars

\* a call returned a Work to its executor and left out one the executor has started
C15_Witness ==
    /\ last.op = "work_for_worker"
    /\ last.works # {}
    /\ \E id \in DOMAIN work :
           /\ work[id].worker_id = Some(last.worker_id)
           /\ work[id].state = "InProgress"

\* the errors that say no row has the id
NotFoundErrors == {"RepositoryNotFound", "unable to find work"}

\* C16: update_work_state and work_by_id on an id with no row return a not-found
\* error and leave the table as it was; on an id with a row, update_work_state
\* returns the Work with the new state and work_by_id returns the stored Work.
C16_NotFoundOnAbsent ==
    [][/\ \A id \in QueueWorkIds, s \in WorkStates :
             UpdateWorkState(id, s) =>
                 IF id \in DOMAIN work
                 THEN /\ last'.res = "Ok"
                      /\ last'.work.id = id
                      /\ last'.work.work_state = s
                      /\ last'.work.executor_id = work[id].worker_id
                      /\ DOMAIN work' = DOMAIN work
                 ELSE /\ last'.res = "Err"
                      /\ last'.error \in NotFoundErrors
                      /\ work' = work
       /\ \A id \in QueueWorkIds :
             WorkById(id) =>
                 IF id \in DOMAIN work
                 THEN /\ last'.res = "Ok"
                      /\ last'.work.id = id
                      /\ last'.work.work_state = work[id].state
                      /\ last'.work.executor_id = work[id].worker_id
                      /\ last'.work.content_id = work[id].content_id
                      /\ last'.work.extractor_binding = work[id].extractor_binding
                      /\ work' = work
                 ELSE /\ last'.res = "Err"
                      /\ last'.error \in NotFoundErrors
                      /\ work' = work]_vars

\* a call on an id with no row failed, next to a row another call had moved on
C16_Witness ==
    /\ last.op \in {"update_work_state", "work_by_id"}
    /\ last.res = "Err"
    /\ last.id \notin DOMAIN work
    /\ \E id \in DOMAIN work : work[id].state = "Completed"

\* C26: every UPDATE of assign_work sets the row's executor to the one the
\* allocation names, whatever executor and state the row has, and the call returns
\* Ok: of two passes that read the same Work, the one that writes last wins.
C26_AssignIsBlindWrite ==
    [][\A p \in Allocators :
          AssignWorkStep(p) =>
              /\ \E id \in DOMAIN alloc[p].todo \ DOMAIN alloc'[p].todo :
                     work'[id].worker_id = Some(alloc[p].todo[id])
              /\ alloc'[p].pc = "idle" => last' = Returned("assign_work", "Ok")]_vars

\* a pass holds, for one executor, a Work the other pass has assigned to another
C26_Witness ==
    \E p \in Allocators :
        /\ alloc[p].pc = "assign"
        /\ \E id \in DOMAIN alloc[p].todo :
               /\ work[id].worker_id # None
               /\ work[id].worker_id # Some(alloc[p].todo[id])

\* the columns of a work row other than its state and its executor
WorkPayload(row) ==
    <<row.id, row.content_id, row.repository_id, row.extractor, row.extractor_binding>>

\* C27: assign_work changes only the executor of the rows its allocation names,
\* and update_work_state changes only the state of the row it names.
C27_WorkWritesAreFramed ==
    /\ [][\A p \in Allocators :
             AssignWorkStep(p) =>
                 /\ DOMAIN work' = DOMAIN work
                 /\ \A id \in DOMAIN work :
                        /\ work'[id].state = work[id].state
                        /\ WorkPayload(work'[id]) = WorkPayload(work[id])
                        /\ id \notin DOMAIN alloc[p].todo => work'[id] = work[id]]_vars
    /\ [][\A id \in DOMAIN work, s \in WorkStates :
             UpdateWorkState(id, s) =>
                 /\ DOMAIN work' = DOMAIN work
                 /\ \A k \in DOMAIN work :
                        /\ work'[k].worker_id = work[k].worker_id
                        /\ WorkPayload(work'[k]) = WorkPayload(work[k])
                        /\ k # id => work'[k] = work[k]]_vars

\* an assign_work has written a row whose state a worker had moved on, next to
\* an untouched row
C27_Witness ==
    /\ last = Returned("assign_work", "Ok")
    /\ \E id \in DOMAIN work : work[id].worker_id # None /\ work[id].state = "InProgress"
    /\ \E id \in DOMAIN work : work[id].worker_id = None /\ work[id].state = "Pending"

\* C28: a Work in state InProgress leaves that state only by an update_work_state
\* on it, and while it is InProgress neither unallocated_work nor work_for_worker
\* of any executor returns it.
C28_InProgressIsNotReclaimed ==
    /\ [][\A id \in DOMAIN work :
             (work[id].state = "InProgress" /\ work'[id].state # "InProgress") =>
                 \E s \in WorkStates : UpdateWorkState(id, s)]_vars
    /\ [](\A id \in DOMAIN work :
             work[id].state = "InProgress" =>
                 /\ id \notin unallocated_work
                 /\ \A e \in Executors : id \notin work_for_worker(e))

\* the executor of a Work in progress asked for its Work and got none
C28_Witness ==
    /\ last.op = "work_for_worker"
    /\ last.works = {}
    /\ \E id \in DOMAIN work :
           /\ work[id].state = "InProgress"
           /\ work[id].worker_id = Some(last.worker_id)

\* C30: a row's executor is never set back to null and an assigned row is never in
\* unallocated_work again; every Pending row is returned by exactly one of
\* unallocated_work and the work_for_worker of the executors.
C30_AssignedStaysAssigned ==
    /\ [][\A id \in DOMAIN work :
             work[id].worker_id # None =>
                 /\ work'[id].worker_id # None
                 /\ id \notin unallocated_work']_vars
    /\ [](\A id \in DOMAIN work :
             work[id].state = "Pending" =>
                 Cardinality({e \in Executors : id \in work_for_worker(e)})
                     + (IF id \in unallocated_work THEN 1 ELSE 0) = 1)

\* an assigned Work is Pending again after its executor had moved it on
C30_Witness ==
    /\ last.op = "update_work_state"
    /\ last.res = "Ok"
    /\ last.work.work_state = "Pending"
    /\ last.work.executor_id # None

----------------------------------------------------------------------------
(* Reading a work table that holds rows of other writers *)

\* the state column is text: the names of WorkState and one that is none of them
PersistedStates == WorkStates \cup {"Paused"}
\* the row of a Work, with the text s in its state column
PersistedRow(w, s) == [WorkModel(w) EXCEPT !.state = s]

\* the table holds rows of some Works, one per id, each in some persisted state
InitDecode ==
    /\ \E W \in SUBSET QueueWorks, st \in [QueueWorkIds -> PersistedStates] :
           /\ \A a, b \in W : a.id = b.id => a = b
           /\ work = [id \in {w.id : w \in W} |->
                         PersistedRow(CHOOSE w \in W : w.id = id, st[id])]
    /\ content = EmptyMap
    /\ extraction_events = << >>
    /\ data_repository = EmptyMap
    /\ now = 0
    /\ txn = None
    /\ marks = {}
    /\ alloc = [p \in Allocators |-> [pc |-> "idle", todo |-> EmptyMap]]
    /\ batch = {}
    /\ dropped = {}
    /\ index = {}
    /\ attributes_index = {}
    /\ last = Returned("new", "Ok")

NextDecode ==
    \/ \E w \in QueueWorks : InsertWork(w)
    \/ \E id \in QueueWorkIds : WorkById(id)
    \/ \E e \in Executors : WorkForWorker(e)
    \/ \E id \in QueueWorkIds, state \in WorkStates : UpdateWorkState(id, state)

SpecDecode == InitDecode /\ [][NextDecode]_vars

\* C22: insert_work never stores a row in state Unknown, and work_by_id,
\* work_for_worker and update_work_state applied to a row whose persisted state is
\* no WorkState's name return its Work in state Unknown.
C22_UnrecognisedStateReadsUnknown ==
    /\ [][\A w \in QueueWorks :
             (InsertWork(w) /\ last'.res = "Ok") => work'[w.id].state # "Unknown"]_vars
    /\ [][\A id \in DOMAIN work :
             (WorkById(id) /\ ~CanDecode(work[id])) =>
                 (last'.res = "Ok" /\ last'.work.work_state = "Unknown")]_vars

----------------------------------------------------------------------------
(* Completion tracking: ingestion, registration and overlapping completions *)

Eq(field, value) == [op |-> "Eq", field |-> field, value |-> value]
Neq(field, value) == [op |-> "Neq", field |-> field, value |-> value]

\* ExtractorFilter
Filters == {Eq(f, v) : f \in Fields, v \in FilterValues}
               \cup {Neq(f, v) : f \in Fields, v \in FilterValues}

\* ExtractorBinding::new
ExtractorBindingNew(name, repository, extractor, filters) ==
    [name |-> name, repository |-> repository, extractor |-> extractor,
     filters |-> filters]

\* the bindings with at most n filters
BindingsUpTo(n) ==
    {ExtractorBindingNew(name, r, e, fs) :
        name \in BindingNames, r \in Repositories, e \in Extractors,
        fs \in SeqsUpTo(Filters, n)}

Bindings == BindingsUpTo(MaxFilters)

TrackPayloads ==
    {from_text("r1", "hello", [f \in {"topic"} |-> JsonString("pipe")]),
     from_text("r1", "world", [f \in {"topic"} |-> JsonString("baz")])}
TrackContentIds == {p.id : p \in TrackPayloads}
TrackRegistrations ==
    {[name |-> "r1",
      extractor_bindings |->
          <<ExtractorBindingNew("b1", "r1", "extractor1", <<Eq("topic", JsonString("pipe"))>>)>>]}

NextTrack ==
    \/ \E cl \in SeqsUpTo(TrackPayloads, MaxBatch) \ {<< >>} : AddContentBegin("r1", cl)
    \/ \E ok \in BOOLEAN : AddContentInsertContent(ok)
    \/ \E ok \in BOOLEAN : AddContentInsertEvents(ok)
    \/ \E r \in TrackRegistrations, ok \in BOOLEAN : UpsertRepository(r, ok)
    \/ \E c \in TrackContentIds, b \in BindingNames : MarkInvoke(c, b)
    \/ \E m \in marks : MarkExecute(m)

SpecTrack == Init /\ [][NextTrack]_vars

----------------------------------------------------------------------------
(* Claims about candidate selection and completion markers *)

\* a filter read as the claim reads it: the content has the field, and its value
\* equals (Eq) or differs from (Neq) the filter's value
Satisfies(metadata, filter) ==
    /\ filter.field \in DOMAIN metadata
    /\ IF filter.op = "Eq"
       THEN metadata[filter.field] = filter.value
       ELSE metadata[filter.field] # filter.value

MarkerAbsentOrBelowOne(row, name) ==
    \/ name \notin DOMAIN row.extractor_bindings_state
    \/ row.extractor_bindings_state[name] # JsonNumber("1")

Candidates(repo_id, binding, content_id) ==
    {id \in DOMAIN content :
        /\ content[id].repository_id = repo_id
        /\ MarkerAbsentOrBelowOne(content[id], binding.name)
        /\ content_id # None => id = content_id[1]
        /\ \A i \in 1..Len(binding.filters) :
               Satisfies(content[id].metadata, binding.filters[i])}

\* C6: for every repository, binding and optional content id, candidate selection
\* returns exactly the rows of the repository that the binding has not completed,
\* that have the given id when one is given, and that satisfy all the binding's
\* filters; with no filter, every row the binding has not completed.
C6_SelectionIsExact ==
    \A r \in Repositories, b \in Bindings,
       c \in {None} \cup {Some(id) : id \in ContentIds} :
        LET got == content_with_unapplied_extractor(r, b, c)
        IN  got.res = "Ok" /\ got.rows = Candidates(r, b, c)

\* C7: the UPDATE of mark_content_as_processed(C, A) leaves every other row as it
\* was, and on row C leaves the payload, the metadata and every other binding's
\* marker as they were.
C7_MarkTouchesOneEntry ==
    [][\A m \in marks :
          MarkExecute(m) =>
              /\ DOMAIN content' = DOMAIN content
              /\ \A id \in DOMAIN content :
                     /\ id # m.content_id => content'[id] = content[id]
                     /\ content'[id].repository_id = content[id].repository_id
                     /\ content'[id].payload = content[id].payload
                     /\ content'[id].payload_type = content[id].payload_type
                     /\ content'[id].metadata = content[id].metadata
                     /\ \A b \in BindingNames \ {m.binding_id} :
                            /\ b \in DOMAIN content'[id].extractor_bindings_state
                                   <=> b \in DOMAIN content[id].extractor_bindings_state
                            /\ b \in DOMAIN content[id].extractor_bindings_state =>
                                   content'[id].extractor_bindings_state[b]
                                       = content[id].extractor_bindings_state[b]]_vars

\* a mark has run on a row that held another binding's marker, next to another row
C7_Witness ==
    /\ last.op = "mark_content_as_processed"
    /\ last.call.content_id \in DOMAIN content
    /\ DOMAIN content[last.call.content_id].extractor_bindings_state = BindingNames
    /\ Cardinality(DOMAIN content) = 2

MarkerSet(content_id, name) ==
    /\ content_id \in DOMAIN content
    /\ name \in DOMAIN content[content_id].extractor_bindings_state
    /\ content[content_id].extractor_bindings_state[name] = JsonNumber("1")

\* C8: when marks of two bindings on one row overlap, each one, when it runs,
\* sets its own marker and keeps the marker the other has set: once both have run,
\* both markers are set.
C8_NoLostCompletion ==
    [][\A m \in marks :
          (MarkExecute(m) /\ m.content_id \in DOMAIN content) =>
              /\ MarkerSet(m.content_id, m.binding_id)'
              /\ \A b \in BindingNames :
                     MarkerSet(m.content_id, b) => MarkerSet(m.content_id, b)']_vars

\* two marks of one row were issued before either ran, and both have run
C8_Witness ==
    /\ last.op = "mark_content_as_processed"
    /\ last.call.content_id \in DOMAIN content
    /\ last.call.seen = EmptyMap
    /\ \A b \in BindingNames : MarkerSet(last.call.content_id, b)

\* C9: a marker that is set stays set through every step (re-ingestion of the
\* content, registration of the repository, marks of other bindings), and while it
\* is set candidate selection for a binding of that name does not return the content.
C9_MarkersAreMonotonic ==
    /\ [][\A id \in DOMAIN content : \A name \in BindingNames :
             MarkerSet(id, name) => MarkerSet(id, name)']_vars
    /\ [](\A id \in DOMAIN content : \A name \in BindingNames :
             MarkerSet(id, name) =>
                 \A r \in Repositories, b \in BindingsUpTo(1), c \in {None, Some(id)} :
                     (b.name = name /\ b.repository = r) =>
                         id \notin content_with_unapplied_extractor(r, b, c).rows)

\* a marked content was ingested again, and the call returned Ok
C9_Witness ==
    /\ last.op = "add_content"
    /\ last.res = "Ok"
    /\ \E id \in last.ids : \E name \in BindingNames : MarkerSet(id, name)

----------------------------------------------------------------------------
(* Selection over stored bindings: content with and without the filtered field *)

SelectPayloads ==
    {from_text("r1", "hello", EmptyMap),
     from_text("r1", "world", [f \in {"topic"} |-> JsonString("pipe")])}
SelectContentIds == {p.id : p \in SelectPayloads}
SelectFilters ==
    {Eq("topic", JsonString("pipe")), Neq("topic", JsonString("pipe")),
     Eq("topic", JsonNumber("1")), Neq("topic", JsonNumber("1"))}
SelectRegistrations ==
    {[name |-> "r1",
      extractor_bindings |-> <<ExtractorBindingNew("b1", "r1", "extractor1", <<f>>)>>] :
        f \in SelectFilters}

NextSelect ==
    \/ \E cl \in SeqsUpTo(SelectPayloads, 1) \ {<< >>} : AddContentBegin("r1", cl)
    \/ \E ok \in BOOLEAN : AddContentInsertContent(ok)
    \/ \E ok \in BOOLEAN : AddContentInsertEvents(ok)
    \/ \E r \in SelectRegistrations, ok \in BOOLEAN : UpsertRepository(r, ok)
    \/ \E c \in {None} \cup {Some(id) : id \in SelectContentIds} : Select("r1", "b1", c)

SpecSelect == Init /\ [][NextSelect]_vars

\* the rows that lack a field one of the binding's filters names
LackingField(binding) ==
    {id \in DOMAIN content :
        \E i \in 1..Len(binding.filters) :
            binding.filters[i].field \notin DOMAIN content[id].metadata}

\* C21: a selection returns normally and returns no row that lacks a field one of
\* the binding's filters names, whether the filter is Eq or Neq.
C21_MissingFieldIsExcluded ==
    (last.op = "content_with_unapplied_extractor" /\ LackingField(last.binding) # {}) =>
        (last.res = "Ok" /\ last.rows \cap LackingField(last.binding) = {})

\* a binding has a filter whose value is not a string
HasNonStringFilter(binding) ==
    \E i \in 1..Len(binding.filters) : as_str(binding.filters[i].value) = None

\* C23: upsert_repository with a binding that has a filter value other than a
\* string returns an error and stores nothing, and no selection over a stored
\* binding fails.
C23_FilterValuesAreValidated ==
    /\ [][\A r \in SelectRegistrations, ok \in BOOLEAN :
             (/\ UpsertRepository(r, ok)
              /\ \E i \in 1..Len(r.extractor_bindings) :
                     HasNonStringFilter(r.extractor_bindings[i])) =>
                 (last'.res = "Err" /\ data_repository' = data_repository)]_vars
    /\ [](last.op = "content_with_unapplied_extractor" => last.res = "Ok")

----------------------------------------------------------------------------
(* Content identity: the same texts ingested again, into two repositories *)

ContentMetadatas == {EmptyMap, [f \in {"topic"} |-> JsonString("pipe")]}
ContentPayloads(repository) ==
    {from_text(repository, "hello", m) : m \in ContentMetadatas}
ContentPayloadIds == {p.id : p \in UNION {ContentPayloads(r) : r \in Repositories}}

NextContent ==
    \/ \E r \in Repositories :
           \E cl \in SeqsUpTo(ContentPayloads(r), MaxBatch) \ {<< >>} :
               AddContentBegin(r, cl)
    \/ \E ok \in BOOLEAN : AddContentInsertContent(ok)
    \/ \E ok \in BOOLEAN : AddContentInsertEvents(ok)
    \/ \E c \in ContentPayloadIds : MarkInvoke(c, "b1")
    \/ \E m \in marks : MarkExecute(m)

SpecContent == Init /\ [][NextContent]_vars

\* C17: a row's id is the id from_text gives its repository and text; there is one
\* row per (repository, text) however often it is ingested; and no step of
\* add_content changes the payload, the metadata or the completion map of a row
\* that exists.
C17_IngestIsInsertOrIgnore ==
    /\ [](\A id \in DOMAIN content :
             id = from_text(content[id].repository_id, content[id].payload,
                            content[id].metadata).id)
    /\ [](\A a, b \in DOMAIN content :
             (/\ content[a].repository_id = content[b].repository_id
              /\ content[a].payload = content[b].payload) => a = b)
    /\ [][\A id \in DOMAIN content :
             (\E ok \in BOOLEAN : AddContentInsertContent(ok) \/ AddContentInsertEvents(ok))
                 => /\ id \in DOMAIN content'
                    /\ content'[id] = content[id]]_vars

\* a call that ingested again the text of a marked row returned Ok, with rows of
\* both repositories in the table
C17_Witness ==
    /\ last.op = "add_content"
    /\ last.res = "Ok"
    /\ last.staged = {}
    /\ \E id \in last.ids : MarkerSet(id, "b1") /\ content[id].metadata # EmptyMap
    /\ Cardinality(DOMAIN content) = 2

----------------------------------------------------------------------------
(* Registration: repositories upserted with their bindings, and the consumer *)

RegisterBindings(repository) ==
    {ExtractorBindingNew(name, repository, "extractor1", << >>) : name \in BindingNames}
RegisterRegistrations ==
    UNION {{[name |-> r, extractor_bindings |-> bs] :
                bs \in SeqsUpTo(RegisterBindings(r), MaxBindings)} : r \in Repositories}

NextRegister ==
    \/ \E r \in RegisterRegistrations, ok \in BOOLEAN : UpsertRepository(r, ok)
    \/ \E id \in 1..MaxEvents : MarkExtractionEventAsProcessed(id)

SpecRegister == Init /\ [][NextRegister]_vars

\* the transaction of upsert_repository(r) has committed the row and the events
Committed(r) ==
    /\ r.name \in DOMAIN data_repository'
    /\ data_repository'[r.name].extractor_bindings = BindingsMap(r.extractor_bindings)
    /\ extraction_events' = extraction_events \o BindingEvents(extraction_events, r)

\* C18: upsert_repository returns an error when its transaction failed, and
\* success only when the repository row and its events were committed.
C18_StoreFailureIsSurfaced ==
    [][\A r \in RegisterRegistrations :
          /\ (UpsertRepository(r, FALSE) /\ r.extractor_bindings # << >>) =>
                 last'.res = "Err"
          /\ ((UpsertRepository(r, TRUE) \/ UpsertRepository(r, FALSE))
                 /\ last'.res = "Ok") => Committed(r)]_vars

BindingAddedEvents(repository, id) ==
    {i \in 1..Len(extraction_events) :
        /\ extraction_events[i].payload.payload = ExtractorBindingAdded(repository, id)
        /\ extraction_events[i].payload.repository_id = repository}

\* C19: in every state each binding in a repository's binding map has an
\* ExtractorBindingAdded event naming the repository and the binding, and every
\* ExtractorBindingAdded event a step appends names a binding the step has stored.
C19_BindingAndEventAreAtomic ==
    /\ [](\A n \in DOMAIN data_repository :
             \A b \in DOMAIN data_repository[n].extractor_bindings :
                 BindingAddedEvents(n, b) # {})
    /\ [][\A i \in (Len(extraction_events) + 1)..Len(extraction_events') :
             LET p == extraction_events'[i].payload.payload
             IN  p.tag = "ExtractorBindingAdded" =>
                     /\ p.repository \in DOMAIN data_repository'
                     /\ p.id \in DOMAIN data_repository'[p.repository].extractor_bindings]_vars

\* a registration has failed after another had been committed
C19_Witness ==
    /\ last.op = "upsert_repository"
    /\ ~last.committed
    /\ \E n \in DOMAIN data_repository :
           Cardinality(DOMAIN data_repository[n].extractor_bindings) = 1
    /\ Len(extraction_events) = 1

----------------------------------------------------------------------------
(* Looking bindings up: two repositories that may hold bindings of one name *)

NextBinding ==
    \/ \E r \in RegisterRegistrations, ok \in BOOLEAN : UpsertRepository(r, ok)
    \/ \E r \in Repositories, id \in BindingNames : BindingById(r, id)

SpecBinding == Init /\ [][NextBinding]_vars

\* the repository has a row whose binding map has the name
HasBinding(repository, id) ==
    /\ repository \in DOMAIN data_repository
    /\ id \in DOMAIN data_repository[repository].extractor_bindings

\* C31: binding_by_id(repository, id) returns the binding the repository's map
\* holds under id, and a not-found error when the repository has no such binding,
\* whatever bindings other repositories hold.
C31_LookupIsPerRepository ==
    [][\A r \in Repositories, id \in BindingNames :
          BindingById(r, id) =>
              IF HasBinding(r, id)
              THEN /\ last'.res = "Ok"
                   /\ last'.binding = data_repository[r].extractor_bindings[id]
              ELSE /\ last'.res = "Err"
                   /\ last'.error \in NotFoundErrors]_vars

----------------------------------------------------------------------------
(* The registry: index metadata and the attributes extractors write *)

IndexNames == {"idx1", "idx2"}
IndexTypes == {"embedding", "attributes"}
AttributeValues == {JsonString("pipe"), JsonString("baz")}
RegistryContentIds == {ContentId("r1", t) : t \in Texts}
RegistryAttributes ==
    {ExtractedAttributesNew(c, a, e) :
        c \in RegistryContentIds, a \in AttributeValues, e \in Extractors}

NextRegistry ==
    \/ \E r \in Repositories, e \in Extractors, n \in IndexNames, t \in IndexTypes,
          ok \in BOOLEAN :
           CreateIndexMetadata(r, e, n, n, JsonString("schema"), t, ok)
    \/ \E n \in IndexNames, r \in Repositories : GetIndex(n, r)
    \/ \E n \in IndexNames, a \in RegistryAttributes, ok \in BOOLEAN :
           AddAttributes("r1", n, a, ok)
    \/ \E n \in IndexNames, c \in {None} \cup {Some(id) : id \in RegistryContentIds} :
           GetExtractedAttributes("r1", n, c)

SpecRegistry == Init /\ [][NextRegistry]_vars

\* the error of get_index that says no row matches
IndexNotFoundErrors == {"index not found"}

\* C24: the index table never holds two rows of one name; create_index_metadata
\* for a name that has a row returns Ok and leaves the table as it was; get_index
\* returns the row of that name when it belongs to the repository, and a not-found
\* error otherwise.
C24_IndexKeyedByName ==
    /\ [](\A a, b \in index : a.name = b.name => a = b)
    /\ [][\A r \in Repositories, e \in Extractors, n \in IndexNames, t \in IndexTypes :
             (/\ CreateIndexMetadata(r, e, n, n, JsonString("schema"), t, TRUE)
              /\ \E row \in index : row.name = n) =>
                 (last'.res = "Ok" /\ index' = index)]_vars
    /\ [][\A n \in IndexNames, r \in Repositories :
             GetIndex(n, r) =>
                 IF \E row \in index : row.name = n /\ row.repository_id = r
                 THEN /\ last'.res = "Ok"
                      /\ last'.model \in index
                      /\ last'.model.name = n
                      /\ last'.model.repository_id = r
                 ELSE /\ last'.res = "Err"
                      /\ last'.error \in IndexNotFoundErrors]_vars

\* get_index found nothing for a repository while the name is another repository's
C24_Witness ==
    /\ last.op = "get_index"
    /\ last.res = "Err"
    /\ \E row \in index : row.name = last.index /\ row.repository_id # last.repository

\* C25: after add_attributes(repository, index, attributes) the table holds exactly
\* one row for the attributes' (content_id, extractor_name), and
\* get_extracted_attributes(repository, index, content_id) returns the attributes
\* just written.
C25_LastUpsertIsReturned ==
    [][\A n \in IndexNames, a \in RegistryAttributes :
          AddAttributes("r1", n, a, TRUE) =>
              /\ Cardinality({row \in attributes_index' :
                                 /\ row.content_id = a.content_id
                                 /\ row.extractor_id = a.extractor_name}) = 1
              /\ a \in get_extracted_attributes("r1", n, Some(a.content_id))']_vars

----------------------------------------------------------------------------
(* The pipeline: ingestion and registration, a scheduler that drains the event *)
(* log and creates Work, an allocation pass, and workers that report and mark  *)

PipelinePayloads ==
    {from_text("r1", "hello", [f \in {"topic"} |-> JsonString("pipe")]),
     from_text("r1", "world", [f \in {"topic"} |-> JsonNumber("1")])}
PipelineRegistrations ==
    {[name |-> "r1",
      extractor_bindings |-> <<ExtractorBindingNew("b1", "r1", "extractor1", <<Eq("topic", v)>>)>>] :
        v \in {JsonString("pipe"), JsonNumber("1")}}
PipelineWorkIds ==
    {WorkId(p.id, "r1", "extractor1", "b1", None) : p \in PipelinePayloads}
PipelineAllocations == UNION {[D -> Executors] : D \in SUBSET PipelineWorkIds}

\* the selections the scheduler makes for an event: every binding of the
\* repository on the content of a CreateContent event, the binding an
\* ExtractorBindingAdded event names on all content
ScheduledSelections(e) ==
    IF e.repository_id \notin DOMAIN data_repository
    THEN {}
    ELSE LET stored == data_repository[e.repository_id].extractor_bindings
         IN  IF e.payload.tag = "CreateContent"
             THEN {[binding |-> stored[n], content_id |-> Some(e.payload.content_id)] :
                      n \in DOMAIN stored}
             ELSE {[binding |-> stored[n], content_id |-> None] :
                      n \in {k \in DOMAIN stored : k = e.payload.id}}

Selected(e, s) == content_with_unapplied_extractor(e.repository_id, s.binding, s.content_id)

\* the Work the scheduler creates for an event: one per candidate, no executor
ScheduledWork(e) ==
    UNION {{WorkNew(c, e.repository_id, s.binding.extractor, s.binding.name, None) :
               c \in Selected(e, s).rows} : s \in ScheduledSelections(e)}

\* the scheduler handles one event of its batch: it selects the candidates, calls
\* insert_work for each (an id that is taken is refused and its row kept), and
\* acknowledges the event; a selection that panics ends the scheduler's task
\* with nothing created or acknowledged, and the task starts again
Schedule(e) ==
    /\ e \in batch
    /\ IF \E s \in ScheduledSelections(e) : Selected(e, s).res = "Panic"
       THEN /\ batch' = {}
            /\ last' = [op |-> "schedule", res |-> "Panic", id |-> e.id]
            /\ UNCHANGED <<work, extraction_events>>
       ELSE /\ work' = [id \in DOMAIN work \cup {w.id : w \in ScheduledWork(e)} |->
                          IF WorkKeyTaken(id)
                          THEN work[id]
                          ELSE WorkModel(CHOOSE w \in ScheduledWork(e) : w.id = id)]
            /\ extraction_events' =
                  [i \in 1..Len(extraction_events) |->
                      IF extraction_events[i].id = e.id
                      THEN [extraction_events[i] EXCEPT
                                !.processed_at = ProcessedAt(extraction_events[i])]
                      ELSE extraction_events[i]]
            /\ batch' = batch \ {e}
            /\ last' = [op |-> "schedule", res |-> "Ok", id |-> e.id]
    /\ UNCHANGED <<content, data_repository, now, txn, marks, alloc, dropped, index,
                   attributes_index>>

\* a worker takes a Work work_for_worker returns to it and reports the start
WorkerStart(worker_id) ==
    \E id \in work_for_worker(worker_id) : UpdateWorkState(id, "InProgress")

\* a worker reports the success of the Work it has started
WorkerSuccess(worker_id) ==
    \E id \in DOMAIN work :
        /\ work[id].worker_id = Some(worker_id)
        /\ work[id].state = "InProgress"
        /\ UpdateWorkState(id, "Completed")

\* a worker marks the content of the Work it has completed
WorkerMark(worker_id) ==
    \E id \in DOMAIN work :
        /\ work[id].worker_id = Some(worker_id)
        /\ work[id].state = "Completed"
        /\ Marker(content[work[id].content_id], work[id].extractor_binding) < 1
        /\ MarkInvoke(work[id].content_id, work[id].extractor_binding)

NextPipeline ==
    \/ \E p \in PipelinePayloads : AddContentBegin("r1", <<p>>)
    \/ AddContentInsertContent(TRUE)
    \/ AddContentInsertEvents(TRUE)
    \/ \E r \in PipelineRegistrations : UpsertRepository(r, TRUE)
    \/ Drain
    \/ \E e \in batch : Schedule(e)
    \/ \E a \in PipelineAllocations : AllocRead("p1", a)
    \/ AssignWorkStep("p1")
    \/ \E w \in Executors : WorkerStart(w)
    \/ \E w \in Executors : WorkerSuccess(w)
    \/ \E w \in Executors : WorkerMark(w)
    \/ \E m \in marks : MarkExecute(m)

\* the scheduler, the allocation pass, the workers and the store keep taking
\* their steps; callers of add_content and upsert_repository may stop
PipelineFairness ==
    /\ WF_vars(AddContentInsertContent(TRUE))
    /\ WF_vars(AddContentInsertEvents(TRUE))
    /\ WF_vars(Drain)
    /\ WF_vars(\E e \in batch : Schedule(e))
    /\ WF_vars(\E a \in PipelineAllocations : AllocRead("p1", a))
    /\ WF_vars(AssignWorkStep("p1"))
    /\ \A w \in Executors :
           /\ WF_vars(WorkerStart(w))
           /\ WF_vars(WorkerSuccess(w))
           /\ WF_vars(WorkerMark(w))
    /\ WF_vars(\E m \in marks : MarkExecute(m))

SpecPipeline == Init /\ [][NextPipeline]_vars /\ PipelineFairness

\* every content that satisfies the filters of a stored binding has the binding's
\* marker, and selection for the binding has no rows
PipelineDone ==
    \A n \in DOMAIN data_repository :
        \A b \in DOMAIN data_repository[n].extractor_bindings :
            LET binding == data_repository[n].extractor_bindings[b]
            IN  /\ \A id \in DOMAIN content :
                       (/\ content[id].repository_id = n
                        /\ \A i \in 1..Len(binding.filters) :
                               Satisfies(content[id].metadata, binding.filters[i]))
                           => MarkerSet(id, b)
                /\ content_with_unapplied_extractor(n, binding, None).rows = {}

\* C20: with a scheduler, an allocation pass and workers that keep going, from
\* some point on every content that matches a stored binding's filters has that
\* binding's marker set and selection for the binding returns no rows.
C20_EventualCompleteness == <>[]PipelineDone

----------------------------------------------------------------------------
(* Registering again: the events of repeated registrations, handled one by one *)

ReplayPayloads == {from_text("r1", "hello", EmptyMap)}
ReplayRegistrations ==
    {[name |-> "r1", extractor_bindings |-> bs] :
        bs \in SeqsUpTo(RegisterBindings("r1"), MaxBindings) \ {<< >>}}

NextReplay ==
    \/ \E p \in ReplayPayloads : AddContentBegin("r1", <<p>>)
    \/ AddContentInsertContent(TRUE)
    \/ AddContentInsertEvents(TRUE)
    \/ \E r \in ReplayRegistrations, ok \in BOOLEAN : UpsertRepository(r, ok)
    \/ Drain
    \/ \E e \in batch : Schedule(e)

SpecReplay == Init /\ [][NextReplay]_vars

\* the events a step has appended, all of them unprocessed
AppendedUnprocessed ==
    \A i \in (Len(extraction_events) + 1)..Len(extraction_events') :
        extraction_events'[i].processed_at = None

\* C32: an upsert_repository that returns Ok has replaced the repository's binding
\* map by the submitted bindings under their names and has appended one
\* unprocessed ExtractorBindingAdded event per submitted binding, registered before
\* or not; and handling the events leaves at most one Work row per (content,
\* repository, extractor, binding).
C32_RepeatedEventsAreHarmless ==
    /\ [][\A r \in ReplayRegistrations :
             ((UpsertRepository(r, TRUE) \/ UpsertRepository(r, FALSE))
                 /\ last'.res = "Ok") => (Committed(r) /\ AppendedUnprocessed)]_vars
    /\ [](\A a, b \in DOMAIN work : Triple(work[a]) = Triple(work[b]) => a = b)

====
